---- MODULE Spec2Model ----
(***************************************************************************)
(* Model of tket2-py/tket2/circuit/build.py: the CircBuild helper that     *)
(* builds a circuit from commands by tracking one wire per qubit index,    *)
(* and the from_coms free function.                                        *)
(*                                                                         *)
(* The graph engine (Dfg, Node, Wire) is implemented outside build.py; it  *)
(* is modelled here from its interface contract: a graph with a declared   *)
(* signature, an append-only node list, typed wires, and a sealed flag.    *)
(***************************************************************************)
EXTENDS Integers, Sequences, FiniteSets, TLC

VARIABLES dfg, qbs, log, pc, circ, last, submitted

vars == <<dfg, qbs, log, pc, circ, last, submitted>>

(***************************************************************************)
(* Bounds of the exploration.                                              *)
(***************************************************************************)
\* largest qubit count given to CircBuild(n)
MaxQb == 2
\* most operations submitted to one builder (one per add or add_command,
\* one per command of an extend or from_coms, one per qubit of a measure_all)
MaxSubmit == 2

(***************************************************************************)
(* Wire types (build.py lines 5-7).                                        *)
(***************************************************************************)
QB_T == "qubit"
LB_T == "linear_bit"
BOOL_T == "bool"

\* [t] * k : a Python list repetition; a count below zero gives the empty list
Repeat(t, k) == [j \in 1..k |-> t]

(***************************************************************************)
(* CustomOp(extension, name, input types, output types).                   *)
(***************************************************************************)
CustomOp(ext, name, ins, outs) ==
    [ext |-> ext, name |-> name, ins |-> ins, outs |-> outs]

(***************************************************************************)
(* Commands: value objects with gate_name, n_qb, n_lb, extension_name and  *)
(* the list qubits().                                                      *)
(***************************************************************************)
Command(gate_name, n_qb, qubits) ==
    [gate_name |-> gate_name, n_qb |-> n_qb, n_lb |-> 0,
     extension_name |-> "quantum.tket2", qubits |-> qubits]

H(qubit) == Command("H", 1, <<qubit>>)

CX(control, target) == Command("CX", 2, <<control, target>>)

PauliX(qubit) == Command("X", 1, <<qubit>>)

PauliZ(qubit) == Command("Z", 1, <<qubit>>)

PauliY(qubit) == Command("Y", 1, <<qubit>>)

\* Command.op(): types = [QB_T] * n_qb + [LB_T] * n_lb, same in and out
op(c) ==
    LET types == Repeat(QB_T, c.n_qb) \o Repeat(LB_T, c.n_lb)
    IN  CustomOp(c.extension_name, c.gate_name, types, types)

\* The operations without an (n qubits in, n qubits out) signature
QAlloc == CustomOp("quantum.tket2", "QAlloc", <<>>, <<QB_T>>)

QFree == CustomOp("quantum.tket2", "QFree", <<QB_T>>, <<>>)

Measure == CustomOp("quantum.tket2", "Measure", <<QB_T>>, <<QB_T, BOOL_T>>)

Not == CustomOp("logic", "Not", <<BOOL_T>>, <<BOOL_T>>)

(***************************************************************************)
(* The graph engine.  A wire is (node, output port); node 0 is the graph's *)
(* input node, appended nodes are numbered 1, 2, ... in append order.      *)
(***************************************************************************)
Wire(node, port) == [node |-> node, port |-> port]

\* Dfg(input_types, output_types): a graph with its signature declared
Dfg(input_types, output_types) ==
    [ins |-> input_types, outs |-> output_types, nodes |-> <<>>,
     sealed |-> FALSE]

\* Dfg.inputs(): the wires of the declared inputs, in order
inputs(d) == [j \in 1..Len(d.ins) |-> Wire(0, j - 1)]

\* Node.outs(count): the first count output wires of a node, in port order
outs(node, count) == [j \in 1..count |-> Wire(node, j - 1)]

\* the type a wire carries, "none" for a wire no node of the graph produces
WireType(d, w) ==
    IF w.node = 0
    THEN IF w.port < Len(d.ins) THEN d.ins[w.port + 1] ELSE "none"
    ELSE IF w.node <= Len(d.nodes) /\ w.port < Len(d.nodes[w.node].op.outs)
         THEN d.nodes[w.node].op.outs[w.port + 1]
         ELSE "none"

\* whether the engine accepts Dfg.add_op(o, wires): the graph is not sealed
\* and the wires match the operation's input types, one per input
add_op_accepts(d, o, wires) ==
    /\ ~d.sealed
    /\ Len(wires) = Len(o.ins)
    /\ \A j \in 1..Len(wires) : WireType(d, wires[j]) = o.ins[j]

\* Dfg.add_op(o, wires): the graph with the new node appended
add_op(d, o, wires) ==
    [d EXCEPT !.nodes = Append(@, [op |-> o, ins |-> wires])]

\* whether the engine accepts Dfg.finish(outputs): the graph is not sealed and
\* the output wires match the declared output types
finish_accepts(d, outputs) ==
    /\ ~d.sealed
    /\ Len(outputs) = Len(d.outs)
    /\ \A j \in 1..Len(outputs) : WireType(d, outputs[j]) = d.outs[j]

\* the circuit value Dfg.finish(outputs) returns
Tk2Circuit(d, outputs) ==
    [ins |-> d.ins, outs |-> d.outs, nodes |-> d.nodes, outputs |-> outputs]

(***************************************************************************)
(* Python list indexing: a list of length n accepts -n .. n-1, a negative  *)
(* index counting from the end; anything else raises IndexError.           *)
(***************************************************************************)
InRange(n, i) == -n <= i /\ i < n

\* the 1-based position list index i denotes
Pos(n, i) == IF i >= 0 THEN i + 1 ELSE n + i + 1

(***************************************************************************)
(* A builder is [dfg, qbs, log]: the graph, the qubit-index table, and the *)
(* record of the index list each appended node was added with.             *)
(***************************************************************************)
Builder(d, q, l) == [dfg |-> d, qbs |-> q, log |-> l]

\* A faulty variant of CircBuild.__init__: the table is taken from the inputs
\* of a graph declared one qubit too wide.
CircBuild_wide(n_qb) ==
    LET d  == Dfg(Repeat(QB_T, n_qb), Repeat(QB_T, n_qb))
        d1 == Dfg(Repeat(QB_T, n_qb + 1), Repeat(QB_T, n_qb + 1))
    IN  Builder(d, inputs(d1), <<>>)

\* CircBuild.__init__(n_qb)
CircBuild(n_qb) ==
    LET d == Dfg(Repeat(QB_T, n_qb), Repeat(QB_T, n_qb))
    IN  Builder(d, inputs(d), <<>>)

\* A faulty variant of the update loop of add: every index gets the node's
\* first output.
RECURSIVE zip_assign_first(_, _, _, _)
zip_assign_first(q, indices, os, j) ==
    IF j > Len(indices) \/ j > Len(os)
    THEN q
    ELSE zip_assign_first([q EXCEPT ![Pos(Len(q), indices[j])] = os[1]],
                          indices, os, j + 1)

\* for i, o in zip(indices, outs): qbs[i] = o   -- from pair j onwards
RECURSIVE zip_assign(_, _, _, _)
zip_assign(q, indices, os, j) ==
    IF j > Len(indices) \/ j > Len(os)
    THEN q
    ELSE zip_assign([q EXCEPT ![Pos(Len(q), indices[j])] = os[j]],
                    indices, os, j + 1)

\* A faulty variant of add: the node consumes the graph's input wires at the
\* indices instead of the table's current wires.
add_from_inputs(b, o, indices) ==
    IF \E j \in 1..Len(indices) : ~InRange(Len(b.qbs), indices[j])
    THEN [status |-> "IndexError", b |-> b, node |-> 0]
    ELSE LET ws == [j \in 1..Len(indices) |->
                       inputs(b.dfg)[Pos(Len(b.qbs), indices[j])]]
         IN  IF ~add_op_accepts(b.dfg, o, ws)
             THEN [status |-> "IRError", b |-> b, node |-> 0]
             ELSE LET d2 == add_op(b.dfg, o, ws)
                      n  == Len(d2.nodes)
                      os == outs(n, Len(indices))
                  IN  [status |-> "ok",
                       b |-> Builder(d2, zip_assign(b.qbs, indices, os, 1),
                                     Append(b.log, indices)),
                       node |-> n]

\* CircBuild.add(op, indices)
add(b, o, indices) ==
    IF \E j \in 1..Len(indices) : ~InRange(Len(b.qbs), indices[j])
    THEN [status |-> "IndexError", b |-> b, node |-> 0]
    ELSE LET ws == [j \in 1..Len(indices) |->
                       b.qbs[Pos(Len(b.qbs), indices[j])]]
         IN  IF ~add_op_accepts(b.dfg, o, ws)
             THEN [status |-> "IRError", b |-> b, node |-> 0]
             ELSE LET d2 == add_op(b.dfg, o, ws)
                      n  == Len(d2.nodes)
                      os == outs(n, Len(indices))
                  IN  [status |-> "ok",
                       b |-> Builder(d2, zip_assign(b.qbs, indices, os, 1),
                                     Append(b.log, indices)),
                       node |-> n]

\* CircBuild.add_command(command)
add_command(b, command) == add(b, op(command), command.qubits)

\* A faulty variant of extend: a command that faults is skipped and the rest
\* of the sequence is applied.
RECURSIVE extend_skipping(_, _, _)
extend_skipping(b, coms, k) ==
    IF k > Len(coms)
    THEN [status |-> "ok", b |-> b, at |-> 0]
    ELSE extend_skipping(add_command(b, coms[k]).b, coms, k + 1)

\* CircBuild.extend(coms), from command k onwards
RECURSIVE extend_from(_, _, _)
extend_from(b, coms, k) ==
    IF k > Len(coms)
    THEN [status |-> "ok", b |-> b, at |-> 0]
    ELSE LET r == add_command(b, coms[k])
         IN  IF r.status # "ok"
             THEN [status |-> r.status, b |-> r.b, at |-> k]
             ELSE extend_from(r.b, coms, k + 1)

extend(b, coms) == extend_from(b, coms, 1)

\* A faulty variant of measure_all: the first output of each Measure node is
\* collected instead of the second.
RECURSIVE measure_from_port0(_, _, _, _)
measure_from_port0(b, i, n, acc) ==
    IF i >= n
    THEN [status |-> "ok", b |-> b, ret |-> acc]
    ELSE LET r == add(b, Measure, <<i>>)
         IN  IF r.status # "ok"
             THEN [status |-> r.status, b |-> r.b, ret |-> <<>>]
             ELSE measure_from_port0(r.b, i + 1, n,
                                     Append(acc, outs(r.node, 2)[1]))

\* CircBuild.measure_all(), from index i onwards of range(n)
RECURSIVE measure_from(_, _, _, _)
measure_from(b, i, n, acc) ==
    IF i >= n
    THEN [status |-> "ok", b |-> b, ret |-> acc]
    ELSE LET r == add(b, Measure, <<i>>)
         IN  IF r.status # "ok"
             THEN [status |-> r.status, b |-> r.b, ret |-> <<>>]
             ELSE measure_from(r.b, i + 1, n,
                               Append(acc, outs(r.node, 2)[2]))

measure_all(b) == measure_from(b, 0, Len(b.qbs), <<>>)

\* CircBuild.finish()
finish(b) ==
    IF finish_accepts(b.dfg, b.qbs)
    THEN [status |-> "ok", b |-> [b EXCEPT !.dfg.sealed = TRUE],
          circ |-> <<Tk2Circuit(b.dfg, b.qbs)>>]
    ELSE [status |-> "IRError", b |-> b, circ |-> <<>>]

\* max(list) of a non-empty list of integers
RECURSIVE max_from(_, _, _)
max_from(s, j, m) ==
    IF j > Len(s) THEN m
    ELSE max_from(s, j + 1, IF s[j] > m THEN s[j] ELSE m)

max(s) == max_from(s, 2, s[1])

\* A faulty variant of the loop of from_coms: the largest index is taken as
\* the qubit count.
RECURSIVE n_qb_no_plus_one(_, _, _)
n_qb_no_plus_one(args, k, n_qb) ==
    IF k > Len(args) THEN n_qb
    ELSE LET max_qb == max(args[k].qubits)
         IN  n_qb_no_plus_one(args, k + 1,
                              IF n_qb > max_qb THEN n_qb ELSE max_qb)

\* the loop of from_coms: n_qb = max(n_qb, max(arg.qubits()) + 1)
RECURSIVE n_qb_from(_, _, _)
n_qb_from(args, k, n_qb) ==
    IF k > Len(args) THEN n_qb
    ELSE LET max_qb == max(args[k].qubits) + 1
         IN  n_qb_from(args, k + 1, IF n_qb > max_qb THEN n_qb ELSE max_qb)

\* A faulty variant of from_coms: the qubit count starts at 1.
from_coms_one(args) ==
    LET n_qb  == n_qb_from(args, 1, 1)
        build == CircBuild(n_qb)
        e     == extend(build, args)
    IN  IF e.status # "ok"
        THEN [status |-> e.status, b |-> e.b, circ |-> <<>>, at |-> e.at]
        ELSE LET f == finish(e.b)
             IN  [status |-> f.status, b |-> f.b, circ |-> f.circ, at |-> 0]

\* from_coms(*args)
from_coms(args) ==
    LET n_qb  == n_qb_from(args, 1, 0)
        build == CircBuild(n_qb)
        e     == extend(build, args)
    IN  IF e.status # "ok"
        THEN [status |-> e.status, b |-> e.b, circ |-> <<>>, at |-> e.at]
        ELSE LET f == finish(e.b)
             IN  [status |-> f.status, b |-> f.b, circ |-> f.circ, at |-> 0]

(***************************************************************************)
(* Inputs of the calls.                                                    *)
(***************************************************************************)
\* qubit indices a caller may pass: every table position, one index past the
\* end of the largest table, and -1 (Python's "last element", which is past
\* the front of an empty table)
Idx == -1..MaxQb

\* the commands submitted in sequences: one- and two-qubit gates over Idx
Commands == {H(q) : q \in Idx} \cup {CX(c, t) : c \in Idx, t \in Idx}

\* the other single-qubit gates, submitted one at a time on qubit 0
Paulis == {PauliX(0), PauliZ(0), PauliY(0)}

\* sequences over S of length at most k
SeqUpTo(S, k) == UNION {[1..m -> S] : m \in 0..k}

\* the operations a caller may pass to add directly
RawOps == {op(H(0)), Measure, QAlloc, QFree, Not}

\* the record of the latest call: what was called with what, on which
\* builder, and how it ended
Call(name, o, indices, coms, pre, status, at, node, ret) ==
    [call |-> name, o |-> o, indices |-> indices, coms |-> coms, pre |-> pre,
     status |-> status, at |-> at, node |-> node, ret |-> ret]

NoOp == CustomOp("", "", <<>>, <<>>)

B == Builder(dfg, qbs, log)

Store(b) ==
    /\ dfg' = b.dfg
    /\ qbs' = b.qbs
    /\ log' = b.log

\* the operations still to submit
Left == MaxSubmit - submitted

(***************************************************************************)
(* Initial state: no builder has been constructed yet.                     *)
(***************************************************************************)
Init ==
    /\ dfg = Dfg(<<>>, <<>>)
    /\ qbs = <<>>
    /\ log = <<>>
    /\ pc = "start"
    /\ circ = <<>>
    /\ submitted = 0
    /\ last = Call("none", NoOp, <<>>, <<>>, Builder(Dfg(<<>>, <<>>), <<>>, <<>>),
                   "ok", 0, 0, <<>>)

(***************************************************************************)
(* The calls.                                                              *)
(***************************************************************************)
\* build = CircBuild(n)
Initialize(n) ==
    /\ pc = "start"
    /\ Store(CircBuild(n))
    /\ pc' = "built"
    /\ last' = Call("init", NoOp, <<n>>, <<>>, B, "ok", 0, 0, <<>>)
    /\ UNCHANGED <<circ, submitted>>

\* build.add(o, indices)
AppendRaw(o, indices) ==
    /\ pc = "built"
    /\ Left >= 1
    /\ LET r == add(B, o, indices)
       IN  /\ Store(r.b)
           /\ last' = Call("add", o, indices, <<>>, B, r.status, 0, r.node, <<>>)
    /\ submitted' = submitted + 1
    /\ UNCHANGED <<pc, circ>>

\* build.add_command(c)
AppendCommand(c) ==
    /\ pc = "built"
    /\ Left >= 1
    /\ LET r == add_command(B, c)
       IN  /\ Store(r.b)
           /\ last' = Call("add_command", op(c), c.qubits, <<c>>, B, r.status,
                           0, r.node, <<>>)
    /\ submitted' = submitted + 1
    /\ UNCHANGED <<pc, circ>>

\* build.extend(coms)
ExtendMany(coms) ==
    /\ pc = "built"
    /\ LET r == extend(B, coms)
       IN  /\ Store(r.b)
           /\ last' = Call("extend", NoOp, <<>>, coms, B, r.status, r.at, 0, <<>>)
    /\ submitted' = submitted + Len(coms)
    /\ UNCHANGED <<pc, circ>>

\* build.measure_all()
MeasureAll ==
    /\ pc = "built"
    /\ Left >= Len(qbs)
    /\ LET r == measure_all(B)
       IN  /\ Store(r.b)
           /\ last' = Call("measure_all", NoOp, <<>>, <<>>, B, r.status, 0, 0,
                           r.ret)
    /\ submitted' = submitted + Len(qbs)
    /\ UNCHANGED <<pc, circ>>

\* build.finish()
Finish ==
    /\ pc = "built"
    /\ LET r == finish(B)
       IN  /\ Store(r.b)
           /\ circ' = IF r.status = "ok" THEN r.circ ELSE circ
           /\ last' = Call("finish", NoOp, <<>>, <<>>, B, r.status, 0, 0, <<>>)
    /\ UNCHANGED <<pc, submitted>>

\* from_coms(*args): builds, extends and finishes a builder of its own
BuildFromCommands(args) ==
    /\ pc = "start"
    /\ LET r == from_coms(args)
       IN  /\ Store(r.b)
           /\ circ' = r.circ
           /\ last' = Call("from_coms", NoOp, <<>>, args, B, r.status, r.at, 0,
                           <<>>)
    /\ submitted' = Len(args)
    /\ pc' = "returned"

Next ==
    \/ pc = "start" /\ \E n \in 0..MaxQb : Initialize(n)
    \/ pc = "built" /\ Left >= 1
         /\ \E o \in RawOps, indices \in SeqUpTo(Idx, 1) : AppendRaw(o, indices)
    \/ pc = "built" /\ Left >= 1
         /\ \E c \in Commands \cup Paulis : AppendCommand(c)
    \/ pc = "built" /\ \E coms \in SeqUpTo(Commands, Left) : ExtendMany(coms)
    \/ MeasureAll
    \/ Finish
    \/ pc = "start"
         /\ \E args \in SeqUpTo(Commands, MaxSubmit) : BuildFromCommands(args)

Spec == Init /\ [][Next]_vars

(***************************************************************************)
(* Vocabulary of the properties.                                           *)
(***************************************************************************)
\* the positions j of index list l that denote table position p (1-based)
\* in a table of length n
RefsAt(l, n, p) == {j \in 1..Len(l) : InRange(n, l[j]) /\ Pos(n, l[j]) = p}

Largest(S) == CHOOSE x \in S : \A y \in S : y <= x

\* the commands k of sequence cs whose index list references position p
Writers(cs, n, p) == {k \in 1..Len(cs) : RefsAt(cs[k].qubits, n, p) # {}}

\* the nodes a of the graph, before node b, added with an index list that
\* references position p
Before(l, n, p, b) == {a \in 1..(b - 1) : RefsAt(l[a], n, p) # {}}

\* the (node, input position) pairs of the graph
InputSlots(d) ==
    UNION {{<<k, j>> : j \in 1..Len(d.nodes[k].ins)} : k \in 1..Len(d.nodes)}

\* the operations of the commands and of measure_all
GateOrMeasure(o) ==
    \/ o = Measure
    \/ /\ o.ext = "quantum.tket2"
       /\ o.name \in {"H", "CX", "X", "Y", "Z"}
       /\ o.ins = o.outs

AllIndices(cs) == UNION {{cs[k].qubits[j] : j \in 1..Len(cs[k].qubits)} :
                            k \in 1..Len(cs)}

\* from_coms returned a circuit with (largest referenced index) + 1 qubit
\* inputs and outputs, holding one node per command, in the order given
FromComsBuilt ==
    LET cs == last.coms
        n  == Largest(AllIndices(cs)) + 1
    IN  /\ last.status = "ok"
        /\ Len(circ) = 1
        /\ circ[1].ins = [j \in 1..n |-> QB_T]
        /\ circ[1].outs = [j \in 1..n |-> QB_T]
        /\ Len(circ[1].outputs) = n
        /\ circ[1].outputs = qbs
        /\ \A p \in 1..n : WireType(dfg, qbs[p]) = QB_T
        /\ Len(circ[1].nodes) = Len(cs)
        /\ \A k \in 1..Len(cs) :
              /\ circ[1].nodes[k].op = op(cs[k])
              /\ log[k] = cs[k].qubits

(***************************************************************************)
(* C7.  For every qubit count n >= 0, CircBuild(n) declares a graph with   *)
(* n qubit inputs and n qubit outputs, and its table has length n with     *)
(* entry i the graph's i-th input wire.                                    *)
(***************************************************************************)
C7_InitTable ==
    last.call = "init" =>
        LET n == last.indices[1]
        IN  /\ dfg.ins = [j \in 1..n |-> QB_T]
            /\ dfg.outs = [j \in 1..n |-> QB_T]
            /\ dfg.nodes = <<>>
            /\ Len(qbs) = n
            /\ \A i \in 0..(n - 1) : qbs[i + 1] = Wire(0, i)

\* a two-qubit builder has just been constructed
C7_Witness == last.call = "init" /\ last.indices = <<2>> /\ Len(qbs) = 2

(***************************************************************************)
(* C1.  After extend returns on a sequence of commands whose indices all   *)
(* lie in 0..n-1, the table still has length n, and entry i is the output  *)
(* wire of the last command of the sequence whose index list contains i,   *)
(* at the port of i's (last) position in that list; an entry no command of *)
(* the sequence referenced is what it was before the call, which is the    *)
(* graph's input wire i when no earlier node referenced i either.          *)
(***************************************************************************)
C1_ExtendTable ==
    LET n    == Len(last.pre.qbs)
        base == Len(last.pre.dfg.nodes)
        cs   == last.coms
    IN  (/\ last.call = "extend"
         /\ last.status = "ok"
         /\ AllIndices(cs) \subseteq 0..(n - 1))
        => /\ Len(qbs) = n
           /\ \A p \in 1..n :
                 IF Writers(cs, n, p) = {}
                 THEN /\ qbs[p] = last.pre.qbs[p]
                      /\ Before(last.pre.log, n, p, base + 1) = {}
                            => qbs[p] = Wire(0, p - 1)
                 ELSE LET k == Largest(Writers(cs, n, p))
                          j == Largest(RefsAt(cs[k].qubits, n, p))
                      IN  qbs[p] = Wire(base + k, j - 1)

\* extend returned on [CX(0,1), H(0)] over a fresh two-qubit builder: index 0
\* was written twice, index 1 once
C1_Witness ==
    /\ last.call = "extend"
    /\ last.status = "ok"
    /\ last.pre.dfg.nodes = <<>>
    /\ last.coms = <<CX(0, 1), H(0)>>
    /\ qbs = <<Wire(2, 0), Wire(1, 1)>>

(***************************************************************************)
(* C2.  Data-dependency order is submission order: when node A was added   *)
(* before node B, both with index lists referencing index i, and no node   *)
(* in between references i, the wire B consumes for i is the wire A        *)
(* produced for i.                                                         *)
(***************************************************************************)
C2_DependencyOrder ==
    LET n == Len(qbs)
    IN  \A b \in 1..Len(dfg.nodes) : \A j \in 1..Len(log[b]) :
           LET p  == Pos(n, log[b][j])
               as == Before(log, n, p, b)
           IN  as # {} =>
                  LET a == Largest(as)
                      q == Largest(RefsAt(log[a], n, p))
                  IN  dfg.nodes[b].ins[j] = Wire(a, q - 1)

\* A acts on {0}, then B acts on {0, 1}: B consumes A's output for index 0
C2_Witness ==
    /\ Len(dfg.nodes) = 2
    /\ log = <<<<0>>, <<0, 1>>>>
    /\ dfg.nodes[2].ins = <<Wire(1, 0), Wire(0, 1)>>

(***************************************************************************)
(* C3.  add / add_command with an index list containing an index outside   *)
(* 0..n-1 faults, and faults before any mutation: no node is appended and  *)
(* the table is unchanged.                                                 *)
(***************************************************************************)
C3_OutOfRangeFaults ==
    LET n == Len(last.pre.qbs)
    IN  (/\ last.call \in {"add", "add_command"}
         /\ \E j \in 1..Len(last.indices) : last.indices[j] \notin 0..(n - 1))
        => /\ last.status = "IndexError"
           /\ B = last.pre

(***************************************************************************)
(* C4.  measure_all on a table of size n appends exactly n Measure nodes,  *)
(* one per index in ascending order, returns n wires, the k-th being       *)
(* output port 1 (the classical bit) of the node applied to index k, and   *)
(* leaves entry k of the table at that node's output port 0 (the qubit);   *)
(* it returns whenever the graph is open and the table holds qubit wires;  *)
(* no table entry is ever a classical wire.                                *)
(***************************************************************************)
C4_MeasureAll ==
    LET n    == Len(last.pre.qbs)
        base == Len(last.pre.dfg.nodes)
    IN  /\ \A p \in 1..Len(qbs) : WireType(dfg, qbs[p]) # BOOL_T
        /\ last.call = "measure_all" =>
              /\ (/\ ~last.pre.dfg.sealed
                  /\ \A p \in 1..n :
                        WireType(last.pre.dfg, last.pre.qbs[p]) = QB_T)
                    => last.status = "ok"
              /\ last.status = "ok" =>
                    /\ Len(dfg.nodes) = base + n
                    /\ Len(last.ret) = n
                    /\ Len(qbs) = n
                    /\ \A k \in 1..n :
                          /\ dfg.nodes[base + k].op = Measure
                          /\ dfg.nodes[base + k].ins = <<last.pre.qbs[k]>>
                          /\ last.ret[k] = Wire(base + k, 1)
                          /\ WireType(dfg, last.ret[k]) = BOOL_T
                          /\ qbs[k] = Wire(base + k, 0)
                          /\ WireType(dfg, qbs[k]) = QB_T

\* measure_all returned on a fresh two-qubit builder
C4_Witness ==
    /\ last.call = "measure_all"
    /\ last.status = "ok"
    /\ Len(last.pre.qbs) = 2
    /\ last.ret = <<Wire(1, 1), Wire(2, 1)>>
    /\ qbs = <<Wire(1, 0), Wire(2, 0)>>

(***************************************************************************)
(* C5.  Once finish has returned, every later call on the builder faults   *)
(* (a second finish included) and changes neither the table nor the        *)
(* sealed graph.                                                           *)
(***************************************************************************)
C5_FinishedIsTerminal ==
    (/\ last.pre.dfg.sealed
     /\ last.call \in {"add", "add_command", "extend", "measure_all", "finish"})
    => /\ last.status # "ok"
       /\ B = last.pre

(***************************************************************************)
(* C9.  Between calls on an open builder built from commands and           *)
(* measurements over indices in 0..n-1 (an index list may repeat an        *)
(* index): no table entry is a wire some node consumed, no two             *)
(* indices hold the same wire, no wire is consumed by two node inputs, and *)
(* every qubit output of a node is in the table or consumed by a later     *)
(* node.                                                                   *)
(***************************************************************************)
C9_OneLiveWirePerIndex ==
    (/\ pc = "built"
     /\ ~dfg.sealed
     /\ \A k \in 1..Len(dfg.nodes) :
           /\ GateOrMeasure(dfg.nodes[k].op)
           /\ \A j \in 1..Len(log[k]) : log[k][j] >= 0)
    => /\ \A p \in 1..Len(qbs) : \A s \in InputSlots(dfg) :
             dfg.nodes[s[1]].ins[s[2]] # qbs[p]
       /\ \A p, q \in 1..Len(qbs) : p # q => qbs[p] # qbs[q]
       /\ \A s, t \in InputSlots(dfg) :
             s # t => dfg.nodes[s[1]].ins[s[2]] # dfg.nodes[t[1]].ins[t[2]]
       /\ \A k \in 1..Len(dfg.nodes) : \A c \in 1..Len(dfg.nodes[k].op.outs) :
             dfg.nodes[k].op.outs[c] = QB_T =>
                \/ \E p \in 1..Len(qbs) : qbs[p] = Wire(k, c - 1)
                \/ \E s \in InputSlots(dfg) :
                      /\ s[1] > k
                      /\ dfg.nodes[s[1]].ins[s[2]] = Wire(k, c - 1)

(***************************************************************************)
(* C6 as stated.  from_coms on a non-empty sequence of commands returns a  *)
(* circuit with (largest referenced index) + 1 qubits in which all the     *)
(* commands were applied in the given order; no command is out of range    *)
(* for the builder from_coms creates.                                      *)
(***************************************************************************)
C6_FromComs_AnyIndices ==
    (last.call = "from_coms" /\ last.coms # <<>>) => FromComsBuilt

(***************************************************************************)
(* C6, amended.  The same, for a non-empty sequence whose indices are all  *)
(* non-negative.                                                           *)
(***************************************************************************)
C6_FromComs ==
    (/\ last.call = "from_coms"
     /\ last.coms # <<>>
     /\ \A i \in AllIndices(last.coms) : i >= 0)
    => FromComsBuilt

\* from_coms(H(0), CX(1, 2)) returned a three-qubit circuit
C6_Witness ==
    /\ last.call = "from_coms"
    /\ last.coms = <<H(0), CX(1, 2)>>
    /\ last.status = "ok"
    /\ Len(circ[1].outputs) = 3
    /\ circ[1].outputs = <<Wire(1, 0), Wire(2, 0), Wire(2, 1)>>

(***************************************************************************)
(* C8 as stated.  from_coms with no commands faults and produces no        *)
(* circuit.                                                                *)
(***************************************************************************)
C8_EmptyFaults ==
    (last.call = "from_coms" /\ last.coms = <<>>)
    => (last.status # "ok" /\ circ = <<>>)

(***************************************************************************)
(* C8, amended.  from_coms with no commands returns the circuit with no    *)
(* qubits and no nodes.                                                    *)
(***************************************************************************)
C8_EmptyIsZeroQubits ==
    (last.call = "from_coms" /\ last.coms = <<>>)
    => /\ last.status = "ok"
       /\ circ = <<[ins |-> <<>>, outs |-> <<>>, nodes |-> <<>>,
                    outputs |-> <<>>]>>

\* from_coms() has returned
C8_Witness ==
    /\ last.call = "from_coms"
    /\ last.coms = <<>>
    /\ pc = "returned"
    /\ Len(circ) = 1

(***************************************************************************)
(* C10.  extend faults exactly when one of its commands faults: at the     *)
(* first command k with an index outside the table, or at the first        *)
(* command the graph engine rejects.  The fault is the result of the call; *)
(* commands 1..k-1 have each been appended once, in order; the table is    *)
(* what those k-1 commands left; nothing from command k on is appended.    *)
(***************************************************************************)
C10_ExtendFault ==
    LET n    == Len(last.pre.qbs)
        base == Len(last.pre.dfg.nodes)
        cs   == last.coms
        bad  == {m \in 1..Len(cs) :
                    \E j \in 1..Len(cs[m].qubits) :
                        ~InRange(n, cs[m].qubits[j])}
        k    == last.at
    IN  last.call = "extend" =>
           /\ bad # {} => last.status # "ok"
           /\ (last.pre.dfg.sealed /\ cs # <<>>) => last.status # "ok"
           /\ last.status # "ok" =>
                 /\ k \in 1..Len(cs)
                 /\ \A m \in bad : k <= m
                 /\ last.status = IF k \in bad THEN "IndexError" ELSE "IRError"
                 /\ Len(dfg.nodes) = base + k - 1
                 /\ Len(log) = base + k - 1
                 /\ SubSeq(dfg.nodes, 1, base) = last.pre.dfg.nodes
                 /\ \A m \in 1..(k - 1) :
                       /\ dfg.nodes[base + m].op = op(cs[m])
                       /\ log[base + m] = cs[m].qubits
                 /\ Len(qbs) = n
                 /\ \A p \in 1..n :
                       LET ws == Writers(SubSeq(cs, 1, k - 1), n, p)
                       IN  IF ws = {}
                           THEN qbs[p] = last.pre.qbs[p]
                           ELSE LET w == Largest(ws)
                                    j == Largest(RefsAt(cs[w].qubits, n, p))
                                IN  qbs[p] = Wire(base + w, j - 1)

\* extend([H(0), H(2)]) on a fresh two-qubit builder: H(0) was applied, H(2)
\* raised IndexError
C10_Witness ==
    /\ last.call = "extend"
    /\ last.coms = <<H(0), H(2)>>
    /\ last.pre = CircBuild(2)
    /\ last.status = "IndexError"
    /\ last.at = 2
    /\ Len(dfg.nodes) = 1
    /\ qbs = <<Wire(1, 0), Wire(0, 1)>>

====
